---- MODULE Spec2Model ----
(***************************************************************************)
(* A model of utilities/logger/logger.go: the buffered, rotating log       *)
(* writer.  One stream (LoggerInfo) is modelled with its accumulator, its  *)
(* handoff queue, its promotion task (WriteBufferToQueue), its flush task  *)
(* (FlushBufferQueue), the files it creates and renames, and the clock.    *)
(*                                                                         *)
(* Spec      the rotation engine: every handler is one action; the file    *)
(*           operations may fail.                                          *)
(* SpecGen   the rotation engine without failures, over many generations.  *)
(* SpecSwap  the accumulator, its lock and the channel, statement by        *)
(*           statement: the callers, the promotion task, the flush task.   *)
(* SpecLogger the Logger in front of the streams: the level filter, the    *)
(*           four level calls and Logger.Write.                            *)
(* SpecReg   the Logger's own lock, statement by statement: concurrent     *)
(*           callers of Logger.Write and of the level calls, the lazy      *)
(*           creation of streams, and streams whose appends have to wait.  *)
(***************************************************************************)
EXTENDS Integers, Sequences, FiniteSets, TLC

(***************************************************************************)
(* Program constants (logger.go:49-62).  Sizes are counted in units of     *)
(* KB = 1024 bytes: 2 GiB in bytes is beyond the integers of the checker.  *)
(***************************************************************************)
KB == 1
MB == 1024 * KB
GB == 1024 * MB
maxFileSize == 2 * GB
maxFileCount == 10

(***************************************************************************)
(* Bounds of the model.                                                    *)
(***************************************************************************)
\* capacity of the handoff channel; stands for the 50000 of logger.go:235
QueueCap == 2
\* the clock runs over the hours 0..MaxHour
MaxHour == 2
\* flush cycles with injected file-system failures, and deletions of the log
\* file from outside, in one run
MaxFaults == 1
\* producers stop appending once the generation counter has reached this
MaxOrder == 2
\* the same, in the runs without failures (SpecGen)
MaxGen == 11
\* the clock of SpecGen runs over the hours 0..GenHours
GenHours == 1
\* goroutines that call LoggerInfo.Write (SpecSwap)
NumCallers == 2
\* records appended in one run (SpecSwap)
MaxRecords == 5
\* records a stream's accumulator takes (SpecLogger)
MaxAppend == 1
\* calls made into the Logger in one run (SpecReg)
MaxCalls == 3

Nil == 0
NoGen == -1

VARIABLES
    now,            \* the wall clock, truncated to the hour
    hour,           \* LoggerInfo.hour: the hour watermark
    fileOrder,      \* LoggerInfo.fileOrder: the generation counter
    logFile,        \* LoggerInfo.logFile: the inode the open handle refers to, or Nil
    backupDir,      \* LoggerInfo.backupDir
    bufferContent,  \* LoggerInfo.buffer.bufferContent: what the live accumulator holds
    bufferQueue,    \* LoggerInfo.bufferQueue: the accumulators sent on the channel
    files,          \* the directory: file name |-> inode
    diskSize,       \* the size of the file at path filename (0 when there is none)
    backups,        \* the hours of the LoggerBackup goroutines started and not yet run
    faults,         \* failures injected so far
    sys,            \* the file operations of the last flush cycle, in order
    pcW,            \* where each caller of LoggerInfo.Write stands
    wRec,           \* the record each caller is appending
    rwWriter,       \* bufferInfoLock: the caller that holds or has claimed the write lock
    rwReaders,      \* bufferInfoLock: the number of read locks held
    bufferLock,     \* LoggerBuffer.bufferLock is held
    pcP,            \* where the promotion task (WriteBufferToQueue) stands
    pcF,            \* where the flush task (FlushBufferQueue) stands
    flBuf,          \* the bytes.Buffer the flush task has received
    written,        \* what the flush task has written to the file, in order
    nextRec,        \* the number of the next record
    logLevel,       \* Logger.logLevel: the minimum severity
    logMap,         \* Logger.logMap: stream name |-> the stream
    panicked,       \* a call into the logger ended in a run-time panic
    pcL,            \* where each caller of the Logger's methods stands
    callL,          \* the call each of them is in: the method and the stream name
    regWriter,      \* Logger's RWMutex: the caller that holds or has claimed the write lock
    regReaders,     \* Logger's RWMutex: the number of read locks held
    started,        \* stream name |-> the LoggerInfo objects and goroutines started for it
    stalled,        \* the streams whose promotion task waits on a full channel, read lock held
    calls           \* the calls made into the Logger so far

\* the stream and its files
rotVars == <<now, hour, fileOrder, logFile, backupDir, files, diskSize, backups, faults, sys>>
\* the accumulator and the channel
bufVars == <<bufferContent, bufferQueue>>
\* the tasks and the lock, step by step
swapVars == <<pcW, wRec, rwWriter, rwReaders, bufferLock, pcP, pcF, flBuf, written, nextRec>>

\* the Logger in front of the streams
logVars == <<logLevel, logMap, panicked>>

\* the Logger's lock, its callers and the goroutines of its streams
regVars == <<pcL, callL, regWriter, regReaders, started, stalled, calls>>

vars == <<rotVars, bufVars, swapVars, logVars, regVars>>

(***************************************************************************)
(* File names.  d = 0 is the log directory, d = 1 the dated backup         *)
(* directory; h is the HOURFORMAT stamp and g the generation suffix.       *)
(***************************************************************************)
Name(d, h, g) == [d |-> d, h |-> h, g |-> g]
\* logger.filename
BaseName == Name(0, NoGen, NoGen)
\* a split name that carries the counter itself
SplitNameNoMod(h, order) == Name(0, h, order)

\* logger.filename + "." + hour + "." + Itoa(fileOrder % maxFileCount)
SplitName(h, order) == Name(0, h, order % maxFileCount)
\* an hour name that carries the counter itself
HourNameNoMod(h, order) == IF order = 0 THEN Name(0, h, NoGen) ELSE Name(0, h, order)

\* an hour name that drops the suffix whenever the counter is a multiple of maxFileCount
HourNameWrapped(h, order) ==
    IF order % maxFileCount = 0 THEN Name(0, h, NoGen) ELSE Name(0, h, order % maxFileCount)

\* the name an hour rotation gives the file (logger.go:372-377)
HourName(h, order) == IF order = 0 THEN Name(0, h, NoGen) ELSE Name(0, h, order % maxFileCount)

Range(f) == {f[x] : x \in DOMAIN f}
\* var logLevel = [4]string{...} (logger.go:23)
levels == <<"debug", "trace", "warn", "error">>
Min(S) == CHOOSE x \in S : \A y \in S : x <= y

\* the sizes of the batches the producers hand over
ContentLens == {maxFileSize}
\* the same in SpecGen
GenLens == {maxFileSize, maxFileSize + KB}

RECURSIVE Bytes(_)
\* bytes.Buffer.Len of a sequence of records
Bytes(s) == IF s = <<>> THEN 0 ELSE Head(s).len + Bytes(Tail(s))

\* one file operation in sys: the call, the name it is given, the inode it
\* reaches, the size of that file where the call reports or moves it
Op(o, n, i, ok) == [op |-> o, name |-> n, ino |-> i, size |-> 0, ok |-> ok]

(***************************************************************************)
(* The file system calls, as functions of the machine state m =            *)
(* [files, diskSize, logFile, fileOrder, hour, backups, sys, used].        *)
(***************************************************************************)
\* an inode number no file and no open handle refers to
NewIno(m) == Min((1..(Cardinality(DOMAIN m.files) + 2)) \ (Range(m.files) \cup {m.logFile}))

\* logger.logFile.Close()
Close(m) == [m EXCEPT !.sys = Append(@, Op("Close", BaseName, m.logFile, m.logFile # Nil))]

\* os.Stat(newFilename); if it is there, os.Remove(newFilename)
StatRemove(m, n) ==
    IF n \in DOMAIN m.files
    THEN [m EXCEPT !.files = [x \in DOMAIN m.files \ {n} |-> m.files[x]],
                   !.sys = @ \o <<Op("Stat", n, m.files[n], TRUE), Op("Remove", n, m.files[n], TRUE)>>]
    ELSE [m EXCEPT !.sys = Append(@, Op("Stat", n, Nil, FALSE))]

\* os.Rename(logger.filename, n)
Rename(m, n, fault) ==
    IF BaseName \in DOMAIN m.files /\ ~fault
    THEN [m EXCEPT !.files = [x \in (DOMAIN m.files \ {BaseName}) \cup {n} |->
                                 IF x = n THEN m.files[BaseName] ELSE m.files[x]],
                   !.diskSize = 0,
                   !.sys = Append(@, [Op("Rename", n, m.files[BaseName], TRUE)
                                         EXCEPT !.size = m.diskSize])]
    ELSE [m EXCEPT !.sys = Append(@, Op("Rename", n, Nil, FALSE)),
                   !.used = @ + (IF BaseName \in DOMAIN m.files THEN 1 ELSE 0)]

\* LoggerInfo.CreateFile: os.OpenFile(filename, O_WRONLY|O_APPEND|O_CREATE)
CreateFile(m, fault) ==
    IF fault
    THEN [m EXCEPT !.logFile = Nil, !.used = @ + 1,
                   !.sys = Append(@, Op("Open", BaseName, Nil, FALSE))]
    ELSE IF BaseName \in DOMAIN m.files
    THEN [m EXCEPT !.logFile = m.files[BaseName],
                   !.sys = Append(@, Op("Open", BaseName, m.files[BaseName], TRUE))]
    ELSE LET i == NewIno(m)
         IN  [m EXCEPT !.logFile = i, !.diskSize = 0,
                       !.files = [x \in DOMAIN m.files \cup {BaseName} |->
                                     IF x = BaseName THEN i ELSE m.files[x]],
                       !.sys = Append(@, Op("Open", BaseName, i, TRUE))]

\* whether logger.logFile.Write returns an error
WriteFails(m, fault) == m.logFile = Nil \/ fault

\* logger.logFile.Write(buffer.bufferContent.Bytes())
FileWrite(m, n, fault) ==
    IF WriteFails(m, fault)
    THEN [m EXCEPT !.sys = Append(@, Op("Write", BaseName, m.logFile, FALSE)),
                   !.used = @ + (IF m.logFile = Nil THEN 0 ELSE 1)]
    ELSE [m EXCEPT !.sys = Append(@, Op("Write", BaseName, m.logFile, TRUE)),
                   !.diskSize = IF BaseName \in DOMAIN m.files /\ m.files[BaseName] = m.logFile
                                THEN @ + n ELSE @]

\* logger.logFile.Sync()
Sync(m) == [m EXCEPT !.sys = Append(@, Op("Sync", BaseName, m.logFile, m.logFile # Nil))]

\* an hour test that lets one hour boundary pass
HourPassedLate(t, h) == t > h + 1

\* an hour test that is also met within the watermark hour
HourPassedFromEqual(t, h) == t >= h

\* t.After(logger.hour) (logger.go:287)
HourPassed(t, h) == t > h

\* a size test that also splits a file of exactly the maximum
TooBigFromMax(size) == size >= maxFileSize

\* size > maxFileSize (logger.go:309)
TooBig(size) == size > maxFileSize

\* a NeedSplit that probes the size whatever the hour is
NeedSplitBoth(m, t, statErr, openErr) ==
    [split |-> BaseName \in DOMAIN m.files /\ m.diskSize > maxFileSize,
     backup |-> t > m.hour,
     m |-> IF BaseName \in DOMAIN m.files
           THEN [m EXCEPT !.sys = Append(@, [op |-> "Stat", name |-> BaseName, ino |-> m.files[BaseName],
                                             size |-> m.diskSize, ok |-> TRUE])]
           ELSE m]

\* a NeedSplit that reports a missing file and leaves it missing
NeedSplitNoCreate(m, t, statErr, openErr) ==
    IF HourPassed(t, m.hour)
    THEN [split |-> FALSE, backup |-> TRUE, m |-> m]
    ELSE IF BaseName \notin DOMAIN m.files \/ statErr
    THEN [split |-> FALSE, backup |-> FALSE,
          m |-> [m EXCEPT !.sys = Append(@, Op("Stat", BaseName, Nil, FALSE)),
                          !.used = @ + (IF BaseName \in DOMAIN m.files THEN 1 ELSE 0)]]
    ELSE [split |-> TooBig(m.diskSize), backup |-> FALSE,
          m |-> [m EXCEPT !.sys = Append(@, [Op("Stat", BaseName, m.files[BaseName], TRUE)
                                                EXCEPT !.size = m.diskSize])]]

(***************************************************************************)
(* LoggerInfo.NeedSplit (logger.go:285-316).  The result carries the       *)
(* machine state, since the file-missing branch reopens the file.          *)
(* statErr is an error of os.Stat other than "does not exist".             *)
(***************************************************************************)
NeedSplit(m, t, statErr, openErr) ==
    IF HourPassed(t, m.hour)
    THEN [split |-> FALSE, backup |-> TRUE, m |-> m]
    ELSE IF BaseName \notin DOMAIN m.files
    THEN [split |-> FALSE, backup |-> FALSE,
          m |-> CreateFile([m EXCEPT !.sys = Append(@, Op("Stat", BaseName, Nil, FALSE))], openErr)]
    ELSE IF statErr
    THEN [split |-> FALSE, backup |-> FALSE,
          m |-> [m EXCEPT !.sys = Append(@, Op("Stat", BaseName, Nil, FALSE)), !.used = @ + 1]]
    ELSE [split |-> TooBig(m.diskSize), backup |-> FALSE,
          m |-> [m EXCEPT !.sys = Append(@, [Op("Stat", BaseName, m.files[BaseName], TRUE)
                                                EXCEPT !.size = m.diskSize])]]

\* a rotation that keeps writing through the handle it had
RotateNoReopen(m, newFilename, renameErr, openErr) ==
    Rename(StatRemove(m, newFilename), newFilename, renameErr)

\* logger.go:348-360 and 370-389: close, clear the slot, rename, reopen
Rotate(m, newFilename, renameErr, openErr) ==
    CreateFile(Rename(StatRemove(Close(m), newFilename), newFilename, renameErr), openErr)

\* an hour branch that hands LoggerBackup the new hour
StartBackupNewHour(m, t) ==
    [m EXCEPT !.fileOrder = 0, !.backups = @ \cup {t}, !.hour = t]

\* logger.go:364-366 and 391-393
StartBackup(m, t) ==
    [m EXCEPT !.fileOrder = 0, !.backups = @ \cup {m.hour}, !.hour = t]

\* logger.go:347-367: the branch taken when NeedSplit says split
SplitBranch(m, t, isBackup, renameErr, openErr) ==
    LET r == Rotate(m, SplitName(m.hour, m.fileOrder), renameErr, openErr)
        n == [r EXCEPT !.fileOrder = @ + 1]
    IN  IF isBackup THEN StartBackup(n, t) ELSE n

\* logger.go:369-394: the branch taken when NeedSplit says backup only
BackupBranch(m, t, renameErr, openErr) ==
    StartBackup(Rotate(m, HourName(m.hour, m.fileOrder), renameErr, openErr), t)

\* a write that is repeated whether or not the first one failed
WriteBatchTwice(m, n, writeErr, retryErr) ==
    Sync(FileWrite(FileWrite(m, n, writeErr), n, retryErr))

\* logger.go:397-402: write, on an error write once more, then sync
WriteBatch(m, n, writeErr, retryErr) ==
    LET w == FileWrite(m, n, writeErr)
    IN  Sync(IF WriteFails(m, writeErr) THEN FileWrite(w, n, retryErr) ELSE w)

\* one iteration of the loop of LoggerInfo.FlushBufferQueue on a batch of n bytes
FlushCycle(m, t, n, statErr, renameErr, openErr, writeErr, retryErr) ==
    LET ns == NeedSplit([m EXCEPT !.sys = <<>>], t, statErr, openErr)
        r  == IF ns.split THEN SplitBranch(ns.m, t, ns.backup, renameErr, openErr)
              ELSE IF ns.backup THEN BackupBranch(ns.m, t, renameErr, openErr)
              ELSE ns.m
    IN  WriteBatch(r, n, writeErr, retryErr)

Machine ==
    [files |-> files, diskSize |-> diskSize, logFile |-> logFile, fileOrder |-> fileOrder,
     hour |-> hour, backups |-> backups, sys |-> sys, used |-> 0]

\* the callers of LoggerInfo.Write
Callers == 1..NumCallers

Init ==
    /\ now = 0
    /\ hour = 0
    /\ fileOrder = 0
    /\ logFile = 1
    /\ backupDir \in {"", "backup"}
    /\ bufferContent = <<>>
    /\ bufferQueue = <<>>
    /\ files = [x \in {BaseName} |-> 1]
    /\ diskSize = 0
    /\ backups = {}
    /\ faults = 0
    /\ sys = <<>>
    /\ pcW = [c \in Callers |-> "idle"]
    /\ wRec = [c \in Callers |-> 0]
    /\ rwWriter = Nil
    /\ rwReaders = 0
    /\ bufferLock = FALSE
    /\ pcP = "tick"
    /\ pcF = "recv"
    /\ flBuf = <<>>
    /\ written = <<>>
    /\ nextRec = 1
    /\ logLevel = 0
    /\ logMap = [l \in Range(levels) |-> [backupDir |-> backupDir, buffer |-> <<>>]]
    /\ panicked = FALSE
    /\ pcL = [c \in Callers |-> "idle"]
    /\ callL = [c \in Callers |-> [op |-> "", name |-> ""]]
    /\ regWriter = Nil
    /\ regReaders = 0
    /\ started = [l \in Range(levels) |-> [info |-> 1, promotion |-> 1, flush |-> 1]]
    /\ stalled = {}
    /\ calls = 0

\* the clock passes an hour boundary
Tick(last) ==
    /\ now < last
    /\ now' = now + 1
    /\ UNCHANGED <<hour, fileOrder, logFile, backupDir, files, diskSize, backups, faults, sys>>
    /\ UNCHANGED <<bufVars, swapVars, logVars, regVars>>

\* The producers of the stream, seen from the channel: the records appended
\* by LoggerInfo.Write (logger.go:318-322) since the last tick, n bytes in
\* all, are sent as one bytes.Buffer by LoggerBuffer.WriteBuffer
\* (logger.go:458-465), which leaves a new empty one; the send waits for room.
WriteBufferToQueue(n) ==
    /\ Len(bufferQueue) < QueueCap
    /\ bufferQueue' = Append(bufferQueue, bufferContent \o <<[id |-> 0, len |-> n, part |-> 0]>>)
    /\ bufferContent' = <<>>
    /\ UNCHANGED <<rotVars, swapVars, logVars, regVars>>

\* one iteration of LoggerInfo.FlushBufferQueue (logger.go:342-405); Errs
\* says whether the file operations may fail
Flush(Errs) ==
    /\ bufferQueue # <<>>
    /\ \E statErr, renameErr, openErr, writeErr, retryErr \in Errs :
          LET buffer == Head(bufferQueue)
              m == FlushCycle(Machine, now, Bytes(buffer),
                              statErr, renameErr, openErr, writeErr, retryErr)
              hit == IF m.used > 0 THEN 1 ELSE 0
          IN  /\ faults + hit <= MaxFaults
              /\ faults' = faults + hit
              /\ files' = m.files
              /\ diskSize' = m.diskSize
              /\ logFile' = m.logFile
              /\ fileOrder' = m.fileOrder
              /\ hour' = m.hour
              /\ backups' = m.backups
              /\ sys' = m.sys
              /\ bufferQueue' = Tail(bufferQueue)
    /\ UNCHANGED <<now, backupDir, bufferContent, swapVars, logVars, regVars>>

FlushBufferQueue == Flush(BOOLEAN)

\* the names LoggerBackup looks for (logger.go:428 and 437-438)
BackupNames(h) == {Name(0, h, NoGen)} \cup {Name(0, h, i) : i \in 0..(maxFileCount - 1)}

\* LoggerInfo.LoggerBackup(h) (logger.go:414-446) of a stream whose
\* backupDir is dir: move the hour's files
BackupRun(dir, h) ==
    /\ h \in backups
    /\ backups' = backups \ {h}
    /\ files' = IF dir = "" THEN files
                ELSE LET moved == BackupNames(h) \cap DOMAIN files
                         dest(x) == Name(1, x.h, x.g)
                     IN  [x \in (DOMAIN files \ moved) \cup {dest(y) : y \in moved} |->
                            IF x.d = 1 /\ Name(0, x.h, x.g) \in moved
                            THEN files[Name(0, x.h, x.g)] ELSE files[x]]
    /\ UNCHANGED <<now, hour, fileOrder, logFile, backupDir, diskSize, faults, sys>>
    /\ UNCHANGED <<bufVars, swapVars, logVars, regVars>>

\* LoggerBackup of the stream NewLogger made: its backupDir is the Logger's (logger.go:88)
LoggerBackup(h) == BackupRun(backupDir, h)

\* someone outside the program deletes the log file
RemoveLogFile ==
    /\ BaseName \in DOMAIN files
    /\ faults < MaxFaults
    /\ faults' = faults + 1
    /\ files' = [x \in DOMAIN files \ {BaseName} |-> files[x]]
    /\ diskSize' = 0
    /\ UNCHANGED <<now, hour, fileOrder, logFile, backupDir, backups, sys>>
    /\ UNCHANGED <<bufVars, swapVars, logVars, regVars>>

Next ==
    \/ Tick(MaxHour)
    \/ \E n \in ContentLens : fileOrder < MaxOrder /\ WriteBufferToQueue(n)
    \/ FlushBufferQueue
    \/ \E h \in 0..MaxHour : LoggerBackup(h)
    \/ RemoveLogFile

Spec == Init /\ [][Next]_vars

(***************************************************************************)
(* SpecGen: the same stream when no file operation fails and nobody        *)
(* deletes the log file, followed through more than maxFileCount           *)
(* generations of one hour.                                                *)
(***************************************************************************)
NextGen ==
    \/ Tick(GenHours)
    \/ \E n \in GenLens : fileOrder < MaxGen /\ WriteBufferToQueue(n)
    \/ Flush({FALSE})
    \/ \E h \in 0..MaxHour : LoggerBackup(h)

SpecGen == Init /\ [][NextGen]_vars

(***************************************************************************)
(* SpecSwap: LoggerInfo.Write, WriteBufferToQueue with                     *)
(* LoggerBuffer.WriteBuffer, and the receive of FlushBufferQueue, one      *)
(* statement at a time.  A record is copied into the accumulator in two    *)
(* halves (bytes.Buffer.WriteString is not atomic).  The channel entry is  *)
(* a copy of the LoggerBuffer struct: it shares the bytes.Buffer with the  *)
(* accumulator until logger.go:462 gives the accumulator a new one, so     *)
(* between the send and that assignment (pcP = "swap") the accumulator's   *)
(* content is the content already handed over.                             *)
(***************************************************************************)
Half(r, k) == [id |-> r, len |-> KB, part |-> k]

\* a read lock that does not wait for the writer
CanRLockAnyTime == TRUE

\* sync.RWMutex: RLock goes through unless a writer holds or has claimed the lock
CanRLock == rwWriter = Nil
\* sync.RWMutex: Lock first excludes the other writers ...
CanClaimLock == rwWriter = Nil
\* a write lock that does not wait for the readers
CanLockAnyTime == TRUE
\* ... and then waits for the readers to leave
CanLock == rwReaders = 0
\* the channel send goes through when there is room
CanSend == Len(bufferQueue) < QueueCap

\* a goroutine calls LoggerInfo.Write(content) (logger.go:318)
WCall(c) ==
    /\ pcW[c] = "idle"
    /\ nextRec <= MaxRecords
    /\ pcW' = [pcW EXCEPT ![c] = "lock"]
    /\ wRec' = [wRec EXCEPT ![c] = nextRec]
    /\ nextRec' = nextRec + 1
    /\ UNCHANGED <<regVars, logVars, rotVars, bufVars, rwWriter, rwReaders, bufferLock, pcP, pcF, flBuf, written>>

\* logger.bufferInfoLock.Lock() (logger.go:319): claim the lock
WClaim(c) ==
    /\ pcW[c] = "lock"
    /\ CanClaimLock
    /\ rwWriter' = c
    /\ pcW' = [pcW EXCEPT ![c] = "wait"]
    /\ UNCHANGED <<regVars, logVars, rotVars, bufVars, wRec, rwReaders, bufferLock, pcP, pcF, flBuf, written, nextRec>>

\* logger.bufferInfoLock.Lock() (logger.go:319): the readers have left
WLock(c) ==
    /\ pcW[c] = "wait"
    /\ CanLock
    /\ pcW' = [pcW EXCEPT ![c] = "write1"]
    /\ UNCHANGED <<regVars, logVars, rotVars, bufVars, wRec, rwWriter, rwReaders, bufferLock, pcP, pcF, flBuf, written, nextRec>>

\* logger.buffer.WriteString(content) (logger.go:320, 454-456): first half
WriteString1(c) ==
    /\ pcW[c] = "write1"
    /\ bufferContent' = Append(bufferContent, Half(wRec[c], 1))
    /\ pcW' = [pcW EXCEPT ![c] = "write2"]
    /\ UNCHANGED <<regVars, logVars, rotVars, bufferQueue, wRec, rwWriter, rwReaders, bufferLock, pcP, pcF, flBuf, written, nextRec>>

\* logger.buffer.WriteString(content): second half
WriteString2(c) ==
    /\ pcW[c] = "write2"
    /\ bufferContent' = Append(bufferContent, Half(wRec[c], 2))
    /\ pcW' = [pcW EXCEPT ![c] = "unlock"]
    /\ UNCHANGED <<regVars, logVars, rotVars, bufferQueue, wRec, rwWriter, rwReaders, bufferLock, pcP, pcF, flBuf, written, nextRec>>

\* logger.bufferInfoLock.Unlock() (logger.go:321)
WUnlock(c) ==
    /\ pcW[c] = "unlock"
    /\ rwWriter' = IF rwWriter = c THEN Nil ELSE rwWriter
    /\ pcW' = [pcW EXCEPT ![c] = "idle"]
    /\ UNCHANGED <<regVars, logVars, rotVars, bufVars, wRec, rwReaders, bufferLock, pcP, pcF, flBuf, written, nextRec>>

\* <-ticker.C; logger.bufferInfoLock.RLock() (logger.go:331-332)
PTick ==
    /\ pcP = "tick"
    /\ CanRLock
    /\ rwReaders' = rwReaders + 1
    /\ pcP' = "rlocked"
    /\ UNCHANGED <<regVars, logVars, rotVars, bufVars, pcW, wRec, rwWriter, bufferLock, pcF, flBuf, written, nextRec>>

\* logger.bufferLock.Lock(); if logger.bufferContent.Len() > 0 (logger.go:459-460)
PTest ==
    /\ pcP = "rlocked"
    /\ ~bufferLock
    /\ bufferLock' = TRUE
    /\ pcP' = IF Len(bufferContent) > 0 THEN "send" ELSE "unlock"
    /\ UNCHANGED <<regVars, logVars, rotVars, bufVars, pcW, wRec, rwWriter, rwReaders, pcF, flBuf, written, nextRec>>

\* bufferQueue <- *logger (logger.go:461)
PSend ==
    /\ pcP = "send"
    /\ CanSend
    /\ bufferQueue' = Append(bufferQueue, bufferContent)
    /\ pcP' = "swap"
    /\ UNCHANGED <<regVars, logVars, rotVars, bufferContent, pcW, wRec, rwWriter, rwReaders, bufferLock, pcF, flBuf, written, nextRec>>

\* logger.bufferContent = bytes.NewBuffer(...) (logger.go:462)
PSwap ==
    /\ pcP = "swap"
    /\ bufferContent' = <<>>
    /\ pcP' = "unlock"
    /\ UNCHANGED <<regVars, logVars, rotVars, bufferQueue, pcW, wRec, rwWriter, rwReaders, bufferLock, pcF, flBuf, written, nextRec>>

\* logger.bufferLock.Unlock(); logger.bufferInfoLock.RUnlock() (logger.go:464, 334)
PUnlock ==
    /\ pcP = "unlock"
    /\ bufferLock' = FALSE
    /\ rwReaders' = rwReaders - 1
    /\ pcP' = "tick"
    /\ UNCHANGED <<regVars, logVars, rotVars, bufVars, pcW, wRec, rwWriter, pcF, flBuf, written, nextRec>>

\* case buffer := <-logger.bufferQueue (logger.go:344)
FRecv ==
    /\ pcF = "recv"
    /\ bufferQueue # <<>>
    /\ flBuf' = Head(bufferQueue)
    /\ bufferQueue' = Tail(bufferQueue)
    /\ pcF' = "io"
    /\ UNCHANGED <<regVars, logVars, rotVars, bufferContent, pcW, wRec, rwWriter, rwReaders, bufferLock, pcP, written, nextRec>>

\* the file operations of the cycle are over (logger.go:346-402); the write succeeded
FWrite ==
    /\ pcF = "io"
    /\ written' = written \o flBuf
    /\ flBuf' = <<>>
    /\ pcF' = "recv"
    /\ UNCHANGED <<regVars, logVars, rotVars, bufVars, pcW, wRec, rwWriter, rwReaders, bufferLock, pcP, nextRec>>

InitSwap == Init /\ backupDir = ""

NextSwap ==
    \/ \E c \in Callers : WCall(c)
    \/ \E c \in Callers : WClaim(c)
    \/ \E c \in Callers : WLock(c)
    \/ \E c \in Callers : WriteString1(c)
    \/ \E c \in Callers : WriteString2(c)
    \/ \E c \in Callers : WUnlock(c)
    \/ PTick
    \/ PTest
    \/ PSend
    \/ PSwap
    \/ PUnlock
    \/ FRecv
    \/ FWrite

SpecSwap == InitSwap /\ [][NextSwap]_vars

\* the steps of a caller inside LoggerInfo.Write
WriteSteps(c) ==
    WClaim(c) \/ WLock(c) \/ WriteString1(c) \/ WriteString2(c) \/ WUnlock(c)
\* the steps of the promotion goroutine; the ticker fires every second
PromotionSteps == PTick \/ PTest \/ PSend \/ PSwap \/ PUnlock
\* the steps of the flush goroutine
FlushSteps == FRecv \/ FWrite

\* SpecSwap when the Go scheduler runs every goroutine that can run
SpecSwapFair ==
    /\ SpecSwap
    /\ \A c \in Callers : WF_vars(WriteSteps(c))
    /\ WF_vars(PromotionSteps)
    /\ WF_vars(FlushSteps)

(***************************************************************************)
(* SpecLogger: the Logger (logger.go:29-224).  A string is a sequence of   *)
(* characters.  The promotion and flush tasks of the streams are left out: *)
(* a call ends with the record in the stream's accumulator.                *)
(***************************************************************************)
\* strings.Index(s, sub): the place of the first sub in s, counted from 0, or -1
Index(s, sub) ==
    LET hits == {i \in 0..(Len(s) - Len(sub)) : SubSeq(s, i + 1, i + Len(sub)) = sub}
    IN  IF hits = {} THEN -1 ELSE Min(hits)

\* the slice expression s[i:] panics when i is out of range
SlicePanics(s, i) == i < 0 \/ i > Len(s)
\* s[i:]
SliceFrom(s, i) == SubSeq(s, i + 1, Len(s))

\* the file names runtime.Caller reports for the callers of Debug and Trace
CallerFiles ==
    { <<"/", "g", "o", "/", "s", "r", "c", "/", "a", ".", "g", "o">>,
      <<"s", "r", "c", "/", "m", ".", "g", "o">>,
      <<"/", "a", "p", "p", "/", "m", ".", "g", "o">> }

\* the stream names Logger.Write is called with
WriteNames == {"debug", "custom"}

\* the values SetLevel is called with
LevelInputs == (0 - 1)..(Len(levels) + 1)

\* a level test that counts the threshold from 1: it keeps the level below
CheckLevelFromOne(logType) ==
    IF logLevel <= 0 THEN TRUE
    ELSE \E i \in logLevel..Len(levels) : levels[i] = logType

\* Logger.CheckLevel (logger.go:142-153)
CheckLevel(logType) ==
    IF logLevel <= 0 THEN TRUE
    ELSE \E i \in (logLevel + 1)..Len(levels) : levels[i] = logType

\* LoggerInfo.Write reached through the Logger: the record is in the accumulator
Appended(name, rec) ==
    /\ Len(logMap[name].buffer) < MaxAppend
    /\ logMap' = [logMap EXCEPT ![name].buffer = Append(@, rec)]

\* Logger.SetLevel (logger.go:127-135)
SetLevel(l) ==
    /\ ~panicked
    /\ logLevel' = IF l > Len(levels) THEN Len(levels) ELSE l
    /\ UNCHANGED <<logMap, panicked, rotVars, bufVars, swapVars, regVars>>

\* Logger.Debug and Logger.Trace (logger.go:159-202); ok and file are what
\* runtime.Caller(1) returns
SiteCall(level, file, ok) ==
    /\ ~panicked
    /\ CheckLevel(level)
    /\ LET i == Index(file, <<"s", "r", "c", "/">>)
       IN  IF ok /\ SlicePanics(file, i)
           THEN /\ panicked' = TRUE
                /\ UNCHANGED logMap
           ELSE /\ Appended(level, [site |-> IF ok THEN SliceFrom(file, i) ELSE <<>>,
                                    suffix |-> TRUE])
                /\ UNCHANGED panicked
    /\ UNCHANGED <<logLevel, rotVars, bufVars, swapVars, regVars>>

Debug(file, ok) == SiteCall("debug", file, ok)

Trace(file, ok) == SiteCall("trace", file, ok)

\* Logger.Warn and Logger.Error (logger.go:204-224)
PlainCall(level) ==
    /\ ~panicked
    /\ CheckLevel(level)
    /\ Appended(level, [site |-> <<>>, suffix |-> TRUE])
    /\ UNCHANGED <<logLevel, panicked, rotVars, bufVars, swapVars, regVars>>

Warn == PlainCall("warn")

Error == PlainCall("error")

\* a new stream that takes the directory the Logger was made with
LoggerDir == backupDir
\* newLoggerInfo: backupDir: "" (logger.go:239); Logger.Write leaves it so
NewStreamDir == ""

\* Logger.Write (logger.go:104-121); openErr: CreateFile fails in newLoggerInfo
LoggerWrite(filename, suffix, openErr) ==
    /\ ~panicked
    /\ IF filename \in DOMAIN logMap
       THEN Appended(filename, [site |-> <<>>, suffix |-> suffix])
       ELSE IF openErr
       THEN UNCHANGED logMap
       ELSE logMap' = [n \in DOMAIN logMap \cup {filename} |->
                          IF n = filename
                          THEN [backupDir |-> NewStreamDir, buffer |-> <<[site |-> <<>>, suffix |-> suffix]>>]
                          ELSE logMap[n]]
    /\ UNCHANGED <<logLevel, panicked, rotVars, bufVars, swapVars, regVars>>

NextLogger ==
    \/ \E l \in LevelInputs : SetLevel(l)
    \/ \E f \in CallerFiles, ok \in BOOLEAN : Debug(f, ok)
    \/ \E f \in CallerFiles, ok \in BOOLEAN : Trace(f, ok)
    \/ Warn
    \/ Error
    \/ \E n \in WriteNames, sfx, e \in BOOLEAN : LoggerWrite(n, sfx, e)

SpecLogger == Init /\ [][NextLogger]_vars

(***************************************************************************)
(* SpecReg: the callers of one Logger and its embedded sync.RWMutex        *)
(* (logger.go:29-34).  Logger.Write takes the write lock and keeps it, by  *)
(* defer, until it returns (logger.go:109-110); the level calls take the   *)
(* read lock for the map lookup and the level test only                    *)
(* (logger.go:205-208).  A stream is stalled while its promotion task sits *)
(* in the channel send with the stream's bufferInfoLock read-held          *)
(* (logger.go:332-334, 461): LoggerInfo.Write on it waits until the flush  *)
(* task receives.                                                          *)
(***************************************************************************)
\* a write lock that does not exclude the other callers
CanClaimRegAnyTime == TRUE
\* Logger.Lock: first exclude the other writers ...
CanClaimReg == regWriter = Nil
\* ... then wait for the readers to leave
CanLockReg == regReaders = 0
\* Logger.RLock goes through unless a writer holds or has claimed the lock
CanRLockReg == regWriter = Nil
\* LoggerInfo.Write gets bufferInfoLock (logger.go:319)
CanAppend(name) == name \notin stalled

\* one LoggerInfo with its two goroutines (logger.go:113-118, 84-90)
OneStream == [info |-> 1, promotion |-> 1, flush |-> 1]

\* a goroutine calls logger.Write(filename, ...) (logger.go:104)
RCallWrite(c, filename) ==
    /\ pcL[c] = "idle"
    /\ calls < MaxCalls
    /\ calls' = calls + 1
    /\ callL' = [callL EXCEPT ![c] = [op |-> "Write", name |-> filename]]
    /\ pcL' = [pcL EXCEPT ![c] = "lock"]
    /\ UNCHANGED <<regWriter, regReaders, started, stalled, logVars, rotVars, bufVars, swapVars>>

\* logger.Lock() (logger.go:109): claim the lock
RClaim(c) ==
    /\ pcL[c] = "lock"
    /\ CanClaimReg
    /\ regWriter' = c
    /\ pcL' = [pcL EXCEPT ![c] = "wait"]
    /\ UNCHANGED <<callL, regReaders, started, stalled, calls, logVars, rotVars, bufVars, swapVars>>

\* logger.Lock() (logger.go:109): the readers have left
RLock(c) ==
    /\ pcL[c] = "wait"
    /\ CanLockReg
    /\ pcL' = [pcL EXCEPT ![c] = "lookup"]
    /\ UNCHANGED <<callL, regWriter, regReaders, started, stalled, calls, logVars, rotVars, bufVars, swapVars>>

\* if loggerInfo, Ok = logger.logMap[filename]; !Ok (logger.go:111)
RLookup(c) ==
    /\ pcL[c] = "lookup"
    /\ pcL' = [pcL EXCEPT ![c] = IF callL[c].name \in DOMAIN logMap THEN "append" ELSE "create"]
    /\ UNCHANGED <<callL, regWriter, regReaders, started, stalled, calls, logVars, rotVars, bufVars, swapVars>>

\* newLoggerInfo(filename, ""), the two go statements and the map store
\* (logger.go:112-118); openErr: CreateFile fails and Write returns
RCreate(c, openErr) ==
    /\ pcL[c] = "create"
    /\ LET n == callL[c].name
       IN  IF openErr
           THEN /\ pcL' = [pcL EXCEPT ![c] = "unlock"]
                /\ UNCHANGED <<logMap, started>>
           ELSE /\ pcL' = [pcL EXCEPT ![c] = "append"]
                /\ logMap' = [x \in DOMAIN logMap \cup {n} |->
                                 IF x = n THEN [backupDir |-> NewStreamDir, buffer |-> <<>>] ELSE logMap[x]]
                /\ started' = [x \in DOMAIN started \cup {n} |->
                                 IF x # n THEN started[x]
                                 ELSE IF n \in DOMAIN started
                                 THEN [info |-> started[n].info + 1,
                                       promotion |-> started[n].promotion + 1,
                                       flush |-> started[n].flush + 1]
                                 ELSE OneStream]
    /\ UNCHANGED <<callL, regWriter, regReaders, stalled, calls, logLevel, panicked, rotVars, bufVars, swapVars>>

\* loggerInfo.Write(Format(...)) (logger.go:120) with the write lock held
RAppend(c) ==
    /\ pcL[c] = "append"
    /\ CanAppend(callL[c].name)
    /\ logMap' = [logMap EXCEPT ![callL[c].name].buffer = Append(@, [by |-> c, op |-> "Write"])]
    /\ pcL' = [pcL EXCEPT ![c] = "unlock"]
    /\ UNCHANGED <<callL, regWriter, regReaders, started, stalled, calls, logLevel, panicked, rotVars, bufVars, swapVars>>

\* the deferred logger.Unlock() (logger.go:110)
RUnlock(c) ==
    /\ pcL[c] = "unlock"
    /\ regWriter' = IF regWriter = c THEN Nil ELSE regWriter
    /\ pcL' = [pcL EXCEPT ![c] = "idle"]
    /\ UNCHANGED <<callL, regReaders, started, stalled, calls, logVars, rotVars, bufVars, swapVars>>

\* a goroutine calls Debug, Trace, Warn or Error (logger.go:159, 182, 204, 215)
RCallLevel(c, level) ==
    /\ pcL[c] = "idle"
    /\ calls < MaxCalls
    /\ calls' = calls + 1
    /\ callL' = [callL EXCEPT ![c] = [op |-> "Level", name |-> level]]
    /\ pcL' = [pcL EXCEPT ![c] = "rlock"]
    /\ UNCHANGED <<regWriter, regReaders, started, stalled, logVars, rotVars, bufVars, swapVars>>

\* logger.RLock() (logger.go:205)
RRLock(c) ==
    /\ pcL[c] = "rlock"
    /\ CanRLockReg
    /\ regReaders' = regReaders + 1
    /\ pcL' = [pcL EXCEPT ![c] = "check"]
    /\ UNCHANGED <<callL, regWriter, started, stalled, calls, logVars, rotVars, bufVars, swapVars>>

\* the lookup, CheckLevel, logger.RUnlock() and the early return (logger.go:206-211)
RCheck(c) ==
    /\ pcL[c] = "check"
    /\ regReaders' = regReaders - 1
    /\ pcL' = [pcL EXCEPT ![c] = IF CheckLevel(callL[c].name) THEN "levelappend" ELSE "idle"]
    /\ UNCHANGED <<callL, regWriter, started, stalled, calls, logVars, rotVars, bufVars, swapVars>>

\* loggerInfo.Write(Format(...)) (logger.go:212), no Logger lock held
RLevelAppend(c) ==
    /\ pcL[c] = "levelappend"
    /\ CanAppend(callL[c].name)
    /\ logMap' = [logMap EXCEPT ![callL[c].name].buffer = Append(@, [by |-> c, op |-> "Level"])]
    /\ pcL' = [pcL EXCEPT ![c] = "idle"]
    /\ UNCHANGED <<callL, regWriter, regReaders, started, stalled, calls, logLevel, panicked, rotVars, bufVars, swapVars>>

\* Logger.SetLevel (logger.go:127-135): lock, store, unlock
RSetLevel(l) ==
    /\ regWriter = Nil /\ regReaders = 0
    /\ calls < MaxCalls
    /\ calls' = calls + 1
    /\ logLevel' = IF l > Len(levels) THEN Len(levels) ELSE l
    /\ UNCHANGED <<pcL, callL, regWriter, regReaders, started, stalled, logMap, panicked, rotVars, bufVars, swapVars>>

\* the promotion task of a stream meets a full channel: it stays in the send
\* with bufferInfoLock read-held (logger.go:332-333, 459-461)
StallStream(name) ==
    /\ name \in DOMAIN logMap
    /\ name \notin stalled
    /\ logMap[name].buffer # <<>>
    /\ stalled' = stalled \cup {name}
    /\ UNCHANGED <<pcL, callL, regWriter, regReaders, started, calls, logVars, rotVars, bufVars, swapVars>>

\* the flush task receives (logger.go:344): the send goes through, the
\* accumulator is replaced and the locks are released (logger.go:461-464, 334)
ResumeStream(name) ==
    /\ name \in stalled
    /\ stalled' = stalled \ {name}
    /\ logMap' = [logMap EXCEPT ![name].buffer = <<>>]
    /\ UNCHANGED <<pcL, callL, regWriter, regReaders, started, calls, logLevel, panicked, rotVars, bufVars, swapVars>>

\* the level calls made in SpecReg, and the thresholds set
RegLevels == {"warn", "error"}
RegThresholds == {3, 5}

NextReg ==
    \/ \E c \in Callers, n \in WriteNames : RCallWrite(c, n)
    \/ \E c \in Callers : RClaim(c)
    \/ \E c \in Callers : RLock(c)
    \/ \E c \in Callers : RLookup(c)
    \/ \E c \in Callers, e \in BOOLEAN : RCreate(c, e)
    \/ \E c \in Callers : RAppend(c)
    \/ \E c \in Callers : RUnlock(c)
    \/ \E c \in Callers, l \in RegLevels : RCallLevel(c, l)
    \/ \E c \in Callers : RRLock(c)
    \/ \E c \in Callers : RCheck(c)
    \/ \E c \in Callers : RLevelAppend(c)
    \/ \E l \in RegThresholds : RSetLevel(l)
    \/ \E n \in WriteNames \cup RegLevels : StallStream(n)
    \/ \E n \in WriteNames \cup RegLevels : ResumeStream(n)

SpecReg == Init /\ [][NextReg]_vars

(***************************************************************************)
(* SpecCustom: a stream that Logger.Write makes for a name of its own      *)
(* (logger.go:111-118), followed through its rotations.  Here the files,   *)
(* the watermark and the channel are those of that stream; backupDir is    *)
(* the directory the Logger was made with, and the stream's own is the     *)
(* one in its LoggerInfo, logMap[CustomName].backupDir.                    *)
(***************************************************************************)
CustomName == "custom"
\* the stream exists: its goroutines run
CustomStarted == CustomName \in DOMAIN logMap

\* the stream's promotion task hands a batch over
CustomPromote(n) == CustomStarted /\ fileOrder < MaxOrder /\ WriteBufferToQueue(n)
\* the stream's flush task runs a cycle
CustomFlush == CustomStarted /\ Flush({FALSE})
\* a LoggerBackup goroutine of the stream runs (logger.go:414-446)
CustomBackup(h) == CustomStarted /\ BackupRun(logMap[CustomName].backupDir, h)

NextCustom ==
    \/ \E sfx, e \in BOOLEAN : LoggerWrite(CustomName, sfx, e)
    \/ Tick(MaxHour)
    \/ \E n \in ContentLens : CustomPromote(n)
    \/ CustomFlush
    \/ \E h \in 0..MaxHour : CustomBackup(h)

SpecCustom == Init /\ [][NextCustom]_vars

(***************************************************************************)
(* The properties.                                                         *)
(***************************************************************************)
\* what the live accumulator holds that is not yet handed over
Accumulator == IF pcP = "swap" THEN <<>> ELSE bufferContent
\* the batches handed over: in the channel, with the flush task, in the file
HandedOver == bufferQueue \o <<flBuf, written>>
\* every place a record can be in
Places == <<Accumulator>> \o HandedOver
\* place u holds some part of record r
HoldsPart(u, r) == \E i \in 1..Len(u) : u[i].id = r
\* place u holds record r whole, once
HoldsWhole(u, r) ==
    /\ \E i \in 1..(Len(u) - 1) : u[i] = Half(r, 1) /\ u[i + 1] = Half(r, 2)
    /\ Cardinality({i \in 1..Len(u) : u[i].id = r}) = 2
\* the records whose LoggerInfo.Write has copied them into the accumulator
AppendedRecords ==
    {r \in 1..(nextRec - 1) :
        \A c \in Callers : wRec[c] = r => pcW[c] \in {"unlock", "idle"}}

\* C1: for every interleaving of LoggerInfo.Write with the drain of the
\* promotion task, each appended record is held whole in exactly one place
\* (the accumulator, one channel entry, the flush task's batch or the file),
\* and no batch handed over holds a part of a record without the rest.
C1_RecordWholeInOnePlace ==
    /\ \A r \in AppendedRecords :
          /\ Cardinality({p \in 1..Len(Places) : HoldsPart(Places[p], r)}) = 1
          /\ \A p \in 1..Len(Places) : HoldsPart(Places[p], r) => HoldsWhole(Places[p], r)
    /\ \A r \in 1..MaxRecords, p \in 1..Len(HandedOver) :
          HoldsPart(HandedOver[p], r) => HoldsWhole(HandedOver[p], r)

\* records in the file, in the channel and in the accumulator at once, the
\* promotion task about to send and a caller waiting for the lock
C1_Witness ==
    /\ written # <<>>
    /\ bufferQueue # <<>>
    /\ bufferContent # <<>>
    /\ pcP = "send"
    /\ \E c \in Callers : pcW[c] = "wait"

\* C2 (as claimed): a caller's append never waits for disk I/O: no caller
\* waits for the accumulator's lock while the promotion task holds it,
\* blocked on the full channel whose only receiver is busy with the file.
C2_AppendNeverWaitsForDisk ==
    \A c \in Callers :
        ~(pcW[c] = "wait" /\ rwReaders > 0 /\ pcP = "send" /\ ~CanSend /\ pcF = "io")

\* C4 (as claimed): no call of Debug, Trace, Warn, Error or Write ends in a panic.
C4_NoCallPanics == ~panicked

\* a step of the flush task: it has taken a batch off the channel
FlushStep == Len(bufferQueue') < Len(bufferQueue)
\* the operations of one kind in a cycle's trace
OpsNamed(s, o) == SelectSeq(s, LAMBDA x : x.op = o)
\* the size of the file at path filename when a cycle starts on a file it keeps
SizeBefore == IF BaseName \in DOMAIN files /\ BaseName \in DOMAIN files'
                 /\ files[BaseName] = files'[BaseName]
              THEN diskSize ELSE 0

\* C3: for every batch the flush task takes, the file write is attempted once
\* and, only if that attempt fails, exactly once more; there is no third
\* attempt; the batch leaves the channel whatever the outcome; it reaches the
\* file once when an attempt succeeds and not at all when both fail.
C3_WriteAtMostTwice ==
    [][FlushStep =>
          LET w == OpsNamed(sys', "Write")
              done == Cardinality({i \in 1..Len(w) : w[i].ok})
          IN  /\ Len(w) \in 1..2
              /\ w[1].ok => Len(w) = 1
              /\ ~w[1].ok => Len(w) = 2
              /\ done <= 1
              /\ bufferQueue' = Tail(bufferQueue)
              /\ (BaseName \in DOMAIN files' /\ files'[BaseName] = logFile')
                    => diskSize' = SizeBefore + done * Bytes(Head(bufferQueue))
      ]_vars

\* a cycle whose two write attempts on an open file both failed
C3_Witness ==
    LET w == OpsNamed(sys, "Write")
    IN  Len(w) = 2 /\ ~w[1].ok /\ ~w[2].ok /\ logFile # Nil

\* C5: a flush cycle that starts with the clock past the hour watermark
\* performs an hour rotation whatever the file size is: it closes the file,
\* renames the base file to a name of the old watermark hour, reopens the
\* base file (a new, empty one when rename and open succeed), sets the
\* generation counter to 0, starts LoggerBackup with the old hour and sets
\* the watermark to the current hour.
C5_HourRotation ==
    [][(FlushStep /\ now > hour) =>
          /\ fileOrder' = 0
          /\ hour' = now
          /\ hour \in backups'
          /\ sys'[1].op = "Close"
          /\ \E i \in 2..(Len(sys') - 1) :
                /\ sys'[i].op = "Rename"
                /\ sys'[i].name.d = 0 /\ sys'[i].name.h = hour
                /\ sys'[i + 1].op = "Open"
                /\ (sys'[i].ok /\ sys'[i + 1].ok) =>
                      /\ files'[sys'[i].name] = files[BaseName]
                      /\ files'[BaseName] # files[BaseName]
                      /\ logFile' = files'[BaseName]
                      /\ diskSize' <= Bytes(Head(bufferQueue))
      ]_vars

\* an hour rotation of a file that never grew past the maximum: it was
\* renamed without a generation suffix and its archival is pending
C5_Witness ==
    /\ hour = now /\ now > 0
    /\ \E i \in 1..Len(sys) :
          /\ sys[i].op = "Rename" /\ sys[i].ok
          /\ sys[i].size <= maxFileSize
          /\ sys[i].name.g = NoGen
          /\ sys[i].name.h \in backups

\* C6: NeedSplit never answers split and backup together, and a flush cycle
\* renames the base file at most once; in a cycle that starts with the clock
\* past the watermark the size of the file is not probed and the generation
\* counter is reset, not advanced.
C6_HourRotationPreempts ==
    [][/\ \A e1, e2 \in BOOLEAN :
             LET ns == NeedSplit(Machine, now, e1, e2) IN ~(ns.split /\ ns.backup)
       /\ FlushStep =>
             /\ Len(OpsNamed(sys', "Rename")) <= 1
             /\ (now > hour) =>
                   /\ \A i \in 1..Len(sys') : ~(sys'[i].op = "Stat" /\ sys'[i].name = BaseName)
                   /\ fileOrder' = 0
                   /\ hour' = now
      ]_vars

\* an hour rotation of a file that was larger than the maximum
C6_Witness ==
    /\ hour = now /\ now > 0
    /\ \A i \in 1..Len(sys) : ~(sys[i].op = "Stat" /\ sys[i].name = BaseName)
    /\ \E i \in 1..Len(sys) :
          sys[i].op = "Rename" /\ sys[i].ok /\ sys[i].size > maxFileSize /\ sys[i].name.h < hour

\* C7: in a flush cycle that starts with the clock not past the watermark
\* and whose size probe succeeds, a size above maxFileSize makes the flush
\* task rotate once: one rename of the base file, to
\* <filename>.<hour>.<fileOrder mod maxFileCount> with the current hour, a
\* reopen (of a new, empty base file when both succeed) and fileOrder + 1;
\* a size of at most maxFileSize leaves file, name and counter alone.
C7_SizeRotation ==
    [][(FlushStep /\ ~(now > hour)
          /\ sys'[1].op = "Stat" /\ sys'[1].name = BaseName /\ sys'[1].ok) =>
          IF sys'[1].size > maxFileSize
          THEN /\ hour = now
               /\ Len(OpsNamed(sys', "Rename")) = 1
               /\ \E i \in 2..(Len(sys') - 1) :
                     /\ sys'[i].op = "Rename"
                     /\ sys'[i].name = Name(0, now, fileOrder % maxFileCount)
                     /\ sys'[i + 1].op = "Open"
                     /\ (sys'[i].ok /\ sys'[i + 1].ok) =>
                           /\ files'[sys'[i].name] = files[BaseName]
                           /\ files'[BaseName] # files[BaseName]
                           /\ logFile' = files'[BaseName]
                           /\ diskSize' <= Bytes(Head(bufferQueue))
               /\ fileOrder' = fileOrder + 1
               /\ hour' = hour
               /\ backups' = backups
          ELSE /\ OpsNamed(sys', "Rename") = <<>>
               /\ OpsNamed(sys', "Close") = <<>>
               /\ fileOrder' = fileOrder
               /\ files' = files
               /\ hour' = hour
      ]_vars

\* a second size rotation in one hour: the probe saw more than the maximum
\* and the file went to generation 1
C7_Witness ==
    /\ Len(sys) > 0
    /\ sys[1].op = "Stat" /\ sys[1].ok /\ sys[1].size > maxFileSize
    /\ \E i \in 1..Len(sys) : sys[i].op = "Rename" /\ sys[i].ok /\ sys[i].name.g = 1
    /\ fileOrder = 2

\* the split files <filename>.<h>.<i> of hour h in the log directory
SplitFiles(f, h) == {n \in DOMAIN f : n.d = 0 /\ n.h = h /\ n.g # NoGen}

\* C8: whatever the number of size rotations in one hour, at most
\* maxFileCount split files <filename>.<hour>.<i> exist for an hour; a size
\* rotation made when the counter has reached maxFileCount removes the file
\* in slot (fileOrder mod maxFileCount) and puts the base file in its place,
\* so the set of names of the hour does not grow.
C8_AtMostMaxFileCountSplitFiles ==
    [][/\ \A h \in 0..now : Cardinality(SplitFiles(files', h)) <= maxFileCount
       /\ (FlushStep /\ fileOrder' = fileOrder + 1 /\ fileOrder >= maxFileCount) =>
             LET slot == Name(0, hour, fileOrder % maxFileCount)
             IN  /\ slot \in DOMAIN files
                 /\ \E i \in 1..(Len(sys') - 1) :
                       /\ sys'[i].op = "Remove" /\ sys'[i].name = slot
                       /\ sys'[i].ino = files[slot]
                       /\ sys'[i + 1].op = "Rename" /\ sys'[i + 1].name = slot
                 /\ files'[slot] = files[BaseName]
                 /\ files'[slot] # files[slot]
                 /\ SplitFiles(files', hour) = SplitFiles(files, hour)
      ]_vars

\* the eleventh size rotation of an hour has replaced the file in slot 0
C8_Witness ==
    /\ fileOrder = maxFileCount + 1
    /\ Cardinality(SplitFiles(files, hour)) = maxFileCount
    /\ \E i \in 1..Len(sys) :
          sys[i].op = "Remove" /\ sys[i].name = Name(0, hour, 0)

\* C9 as stated: in every reachable state fileOrder lies in
\* 0..maxFileCount-1
C9_FileOrderBelowMaxFileCount == fileOrder \in 0..(maxFileCount - 1)

\* C9: fileOrder is never negative; it changes only by growing by one at a
\* size rotation, within the hour, or by returning to 0 at an hour rotation,
\* so that it passes maxFileCount-1 when an hour has more rotations; what
\* stays in 0..maxFileCount-1 is the generation suffix of every file name,
\* which is fileOrder mod maxFileCount.
C9_OnlySuffixWraps ==
    [][/\ fileOrder' >= 0
       /\ fileOrder' # fileOrder =>
             \/ fileOrder' = fileOrder + 1 /\ hour' = hour /\ FlushStep
             \/ fileOrder' = 0 /\ hour' > hour /\ FlushStep
       /\ \A n \in DOMAIN files' : n.g \in {NoGen} \cup (0..(maxFileCount - 1))
       /\ \A i \in 1..Len(sys') :
             (FlushStep /\ sys'[i].op = "Rename" /\ sys'[i].name.g # NoGen)
                => sys'[i].name.g = fileOrder % maxFileCount
      ]_vars

\* the counter has passed maxFileCount-1 while the names kept to ten slots
C9_Witness ==
    /\ fileOrder >= maxFileCount
    /\ Cardinality(SplitFiles(files, hour)) = maxFileCount
    /\ \E i \in 1..Len(sys) :
          sys[i].op = "Rename" /\ sys[i].ok /\ sys[i].name.g = (fileOrder - 1) % maxFileCount

\* C10: an hour rotation renames the base file to a name of the old
\* watermark hour, <filename>.<hour> exactly when fileOrder was 0 and
\* <filename>.<hour>.<fileOrder mod maxFileCount> otherwise, and a file
\* already at that name is removed just before the rename.
C10_HourRotationName ==
    [][(FlushStep /\ now > hour) =>
          LET n == IF fileOrder = 0 THEN Name(0, hour, NoGen)
                   ELSE Name(0, hour, fileOrder % maxFileCount)
          IN  /\ Len(OpsNamed(sys', "Rename")) = 1
              /\ \E i \in 2..Len(sys') :
                    /\ sys'[i].op = "Rename"
                    /\ sys'[i].name = n
                    /\ (sys'[i].name.g = NoGen) <=> (fileOrder = 0)
                    /\ n \in DOMAIN files =>
                          /\ sys'[i - 1].op = "Remove"
                          /\ sys'[i - 1].name = n
                          /\ sys'[i - 1].ino = files[n]
                    /\ n \notin DOMAIN files => sys'[i - 1].op # "Remove"
                    /\ sys'[i].ok => files'[n] = files[BaseName]
      ]_vars

\* an hour rotation made with fileOrder at maxFileCount: the name carries
\* suffix 0 and the split file that had it was removed first
C10_Witness ==
    /\ hour = now /\ now > 0
    /\ Len(sys) > 2
    /\ sys[1].op = "Close"
    /\ \E i \in 2..Len(sys) :
          /\ sys[i].op = "Rename" /\ sys[i].ok
          /\ sys[i].name.g = 0 /\ sys[i].name.h < hour
          /\ sys[i - 1].op = "Remove" /\ sys[i - 1].name = sys[i].name

\* a flush cycle that starts within the watermark hour with no file at path filename
MissingFileCycle == FlushStep /\ ~(now > hour) /\ BaseName \notin DOMAIN files

Enabled == {l \in Range(levels) : CheckLevel(l)}
\* the place of a level name in the list, counted from 0 as in Go
LevelIndex(l) == (CHOOSE i \in 1..Len(levels) : levels[i] = l) - 1

\* C12: the threshold SetLevel stores is at most 4, and for every stored
\* threshold t and every level name, CheckLevel(name) is true exactly when
\* t <= 0 or the index of the name is at least t: 0 enables all four levels,
\* 2 enables warn and error only, 3 enables error only, 4 enables none.
C12_CheckLevelByIndex ==
    /\ logLevel <= Len(levels)
    /\ \A l \in Range(levels) : CheckLevel(l) <=> (logLevel <= 0 \/ LevelIndex(l) >= logLevel)
    /\ logLevel <= 0 => Enabled = {"debug", "trace", "warn", "error"}
    /\ logLevel = 1 => Enabled = {"trace", "warn", "error"}
    /\ logLevel = 2 => Enabled = {"warn", "error"}
    /\ logLevel = 3 => Enabled = {"error"}
    /\ logLevel = 4 => Enabled = {}

\* threshold 2 is stored, Warn has appended its record and Trace has not
C12_Witness ==
    /\ logLevel = 2
    /\ logMap["warn"].buffer # <<>>
    /\ logMap["trace"].buffer = <<>>
    /\ CheckLevel("error") /\ ~CheckLevel("debug")

\* the cycle renamed the base file and reopened it, both with success
RotatedAt(s, i) ==
    /\ i \in 1..(Len(s) - 1)
    /\ s[i].op = "Rename" /\ s[i].ok
    /\ s[i + 1].op = "Open" /\ s[i + 1].ok

\* C13: at the end of a flush cycle that rotated (by size or by hour) with a
\* successful rename and a successful reopen, the open handle refers to the
\* file now at path filename and not to the renamed file, and the batch of
\* that cycle went to that handle; at no time does the handle refer to a file
\* that carries a rotated name.
C13_HandleFollowsBaseName ==
    [][/\ \A n \in DOMAIN files' \ {BaseName} : files'[n] # logFile'
       /\ FlushStep =>
             \A i \in 1..Len(sys') :
                RotatedAt(sys', i) =>
                   /\ BaseName \in DOMAIN files'
                   /\ logFile' = files'[BaseName]
                   /\ logFile' # sys'[i].ino
                   /\ files'[sys'[i].name] = sys'[i].ino
                   /\ \A j \in (i + 2)..Len(sys') : sys'[j].ino = logFile'
      ]_vars

\* after a size rotation: the old file is under its split name, and the
\* handle is on a new file at path filename that took the batch
C13_Witness ==
    /\ \E i \in 1..Len(sys) :
          /\ RotatedAt(sys, i)
          /\ sys[i].name.g # NoGen
          /\ files[sys[i].name] = sys[i].ino
          /\ logFile # sys[i].ino
    /\ BaseName \in DOMAIN files /\ logFile = files[BaseName]
    /\ diskSize = maxFileSize

\* C14: every stream in the Logger's map, among them those Logger.Write
\* made for a name that was not there, has exactly one LoggerInfo, one
\* promotion task and one flush task, also when callers write to the same
\* new name at the same time; a write to a name that is in the map makes
\* nothing new; and Logger.Write, which never asks CheckLevel, appends its
\* record to that stream under every threshold (it returns without an
\* append only when the file of a new stream could not be opened).
C14_OneStreamPerName ==
    [][/\ DOMAIN started' = DOMAIN logMap'
       /\ \A n \in DOMAIN logMap' : started'[n] = OneStream
       /\ \A n \in DOMAIN logMap :
             /\ n \in DOMAIN logMap'
             /\ started'[n] = started[n]
             /\ logMap'[n].backupDir = logMap[n].backupDir
       /\ \A c \in Callers :
             (callL[c].op = "Write" /\ pcL'[c] = "unlock" /\ pcL[c] # "unlock") =>
                \/ /\ pcL[c] = "append"
                   /\ logMap'[callL[c].name].buffer =
                         Append(logMap[callL[c].name].buffer, [by |-> c, op |-> "Write"])
                \/ /\ pcL[c] = "create"
                   /\ callL[c].name \notin DOMAIN logMap'
      ]_vars

\* two callers are in Logger.Write for the same new name at once: one has
\* made the stream and is about to append, the other waits for the lock,
\* and the threshold lets no level through
C14_Witness ==
    /\ logLevel = Len(levels)
    /\ "custom" \in DOMAIN logMap
    /\ \E c, d \in Callers :
          /\ c # d
          /\ callL[c] = [op |-> "Write", name |-> "custom"]
          /\ callL[d] = [op |-> "Write", name |-> "custom"]
          /\ pcL[c] = "append"
          /\ pcL[d] = "lock"

\* C19 (as claimed): no call on one stream waits for the Logger's lock while
\* that lock is held by a Logger.Write whose append waits on another,
\* stalled stream.
C19_StreamsDoNotStallEachOther ==
    \A c, d \in Callers :
        ~(/\ c # d
          /\ pcL[c] = "append" /\ regWriter = c /\ ~CanAppend(callL[c].name)
          /\ pcL[d] \in {"rlock", "lock"}
          /\ callL[d].name # callL[c].name
          /\ CanAppend(callL[d].name))

\* the cycle took the hour branch: it closed the file, started LoggerBackup
\* for the watermark hour and assigned the watermark
HourAssigned ==
    /\ FlushStep
    /\ OpsNamed(sys', "Close") # <<>>
    /\ fileOrder' = 0
    /\ hour \in backups'

\* C15: with a clock that does not go back, the hour watermark never
\* decreases and is never later than the current hour; it changes only in a
\* flush cycle, every assignment to it sets it to a strictly later hour, the
\* current one, and a cycle that starts within the watermark hour does not
\* assign it.
C15_WatermarkMonotonic ==
    [][/\ now' >= now
       /\ hour' >= hour
       /\ hour' <= now'
       /\ hour' # hour => FlushStep /\ HourAssigned
       /\ HourAssigned => hour' > hour /\ hour' = now
       /\ (FlushStep /\ ~(now > hour)) => ~HourAssigned /\ hour' = hour
      ]_vars

\* the watermark has been assigned twice, from hour 0 to 1 and from 1 to 2
C15_Witness ==
    /\ hour = 2 /\ now = 2
    /\ 1 \in backups
    /\ \E i \in 1..Len(sys) : sys[i].op = "Rename" /\ sys[i].name.h = 1

RECURSIVE Flatten(_)
\* the batches of a channel, one after the other
Flatten(q) == IF q = <<>> THEN <<>> ELSE Head(q) \o Flatten(Tail(q))
IsPrefix(a, b) == Len(a) <= Len(b) /\ SubSeq(b, 1, Len(a)) = a
\* everything copied into the stream so far, in the order it lies on the way
\* to the file: written, with the flush task, in the channel, in the accumulator
Pipeline == written \o flBuf \o Flatten(bufferQueue) \o Accumulator

\* C16: when no write fails, what the flush task has written is always a
\* prefix of the records in the order in which their appends held the
\* buffer lock: the stream's content changes only by the lock holder's
\* record being added at its end, the promotion, the channel and the flush
\* task move it on without reordering, dropping or repeating any of it, and
\* the file only grows, by the oldest batch.
C16_WrittenIsPrefixOfAppends ==
    [][/\ IsPrefix(Pipeline, Pipeline')
       /\ Len(Pipeline') <= Len(Pipeline) + 1
       /\ Pipeline' # Pipeline =>
             /\ rwWriter # Nil /\ pcW[rwWriter] \in {"write1", "write2"}
             /\ Pipeline' = Append(Pipeline, Half(wRec[rwWriter], IF pcW[rwWriter] = "write1" THEN 1 ELSE 2))
       /\ (\E c \in Callers : pcW[c] \in {"write1", "write2"} /\ pcW'[c] # pcW[c])
             => Pipeline' # Pipeline
       /\ IsPrefix(written, written')
       /\ IsPrefix(written', Pipeline')
       /\ written' # written => written' = written \o flBuf /\ flBuf # <<>>
       /\ flBuf' # flBuf /\ flBuf' # <<>> => flBuf' = Head(bufferQueue)
       /\ \A i, j \in 1..Len(Pipeline') : Pipeline'[i] = Pipeline'[j] => i = j
      ]_vars

\* the record of the second call took the lock first and is first in the
\* file; a later batch waits in the channel
C16_Witness ==
    /\ Len(written) >= 4
    /\ written[1].id = 2 /\ written[2].id = 2
    /\ written[3].id = 1 /\ written[4].id = 1
    /\ bufferQueue # <<>>

\* C17: when the promotion task, the flush task and the callers inside
\* Write are scheduled fairly and the file writes succeed, every record
\* appended to the stream is eventually in the file, whole; and whenever
\* the promotion task waits in the send on a full channel, the flush task is
\* not waiting for it: it has a batch to write or to receive.
C17_EveryRecordWritten ==
    /\ \A r \in 1..MaxRecords : (r \in AppendedRecords) ~> HoldsWhole(written, r)
    /\ [](pcP = "send" /\ ~CanSend => pcF = "io" \/ bufferQueue # <<>>)
    /\ [](pcF = "recv" /\ bufferQueue = <<>> /\ Accumulator # <<>>
             => ENABLED (PromotionSteps \/ \E c \in Callers : WriteSteps(c)))

\* every record of the run has reached the file, the last of them after the
\* channel had been full
C17_Witness ==
    /\ \A r \in 1..MaxRecords : HoldsWhole(written, r)
    /\ Len(written) = 2 * MaxRecords
    /\ bufferQueue = <<>> /\ flBuf = <<>> /\ bufferContent = <<>>

\* a step of a LoggerBackup goroutine, for hour h
BackupStep(h) == h \in backups /\ backups' = backups \ {h} /\ ~FlushStep

\* C18: a LoggerBackup run for hour H is started only by the flush cycle
\* that moves the watermark past H, so H is before the watermark as long as
\* the run is pending; every file name a flush cycle removes or renames to
\* carries the watermark hour, which is later than every pending H; and a
\* LoggerBackup step touches only <filename>.<H> and <filename>.<H>.<0..9>:
\* it leaves the base file, the open handle and every other name alone, and
\* with an empty backupDir it moves nothing.
C18_BackupAwayFromFlush ==
    [][/\ \A h \in backups' : h < hour'
       /\ \A h \in backups' \ backups : h = hour /\ hour' > hour /\ FlushStep
       /\ FlushStep =>
             \A i \in 1..Len(sys') :
                sys'[i].name # BaseName =>
                   /\ sys'[i].name.h = hour
                   /\ \A h \in backups : sys'[i].name \notin BackupNames(h)
       /\ \A h \in 0..MaxHour :
             BackupStep(h) =>
                /\ BaseName \notin BackupNames(h)
                /\ \A n \in DOMAIN files \ BackupNames(h) :
                      n \in DOMAIN files' /\ files'[n] = files[n]
                /\ \A n \in DOMAIN files' \ DOMAIN files :
                      n.d = 1 /\ n.h = h /\ Name(0, n.h, n.g) \in DOMAIN files
                /\ logFile' = logFile /\ diskSize' = diskSize
                /\ hour' = hour /\ fileOrder' = fileOrder /\ sys' = sys
                /\ backupDir = "" => files' = files
                /\ backupDir # "" => \A n \in BackupNames(h) : n \notin DOMAIN files'
      ]_vars

\* the files of hour 0 are in the backup directory, the stream has since
\* rotated in a later hour, and the archival of that hour is still to run
C18_Witness ==
    /\ \E n \in DOMAIN files : n.d = 1 /\ n.h = 0
    /\ \E n \in DOMAIN files : n.d = 0 /\ n.h = 1
    /\ 1 \in backups
    /\ hour = 2

\* C20: a stream Logger.Write made for a name of its own has an empty
\* backupDir whatever directory the Logger was made with, while the four
\* level streams have the Logger's; its hour rotations rename the base file
\* to the name of the old hour and start LoggerBackup as for any stream, but
\* its LoggerBackup runs move no file: nothing of it ever reaches a backup
\* directory.
C20_CustomStreamNeverArchives ==
    [][/\ \A n \in DOMAIN logMap' :
             logMap'[n].backupDir = IF n \in Range(levels) THEN backupDir ELSE ""
       /\ (FlushStep /\ now > hour) =>
             /\ hour \in backups'
             /\ \E i \in 1..Len(sys') :
                   sys'[i].op = "Rename" /\ sys'[i].ok /\ sys'[i].name = HourName(hour, fileOrder)
             /\ HourName(hour, fileOrder) \in DOMAIN files'
       /\ \A h \in 0..MaxHour : BackupStep(h) => files' = files
       /\ \A n \in DOMAIN files' : n.d = 0
      ]_vars

\* the Logger archives into a directory; the custom stream has rotated at an
\* hour boundary, its LoggerBackup for that hour has run, and the rotated
\* file is still in the log directory
C20_Witness ==
    /\ backupDir # ""
    /\ CustomStarted
    /\ logMap[CustomName].backupDir = ""
    /\ hour = 1
    /\ backups = {}
    /\ Name(0, 0, NoGen) \in DOMAIN files

====
